---- MODULE Spec2Model ----
(***************************************************************************)
(* Net Thud (oayrilmaz/netthud): the upcoming-fixtures generator,          *)
(* scripts/generate-upcoming.mjs.                                          *)
(*                                                                         *)
(* The generator turns league standings into a per-team strength rating    *)
(* (fetchStandingsRatingsByCompetitionId) and two ratings into a           *)
(* home/draw/away probability triple (computeHDA).  Both are JavaScript    *)
(* double arithmetic.  A JavaScript value is modelled as a record          *)
(*     [kind, m, e]                                                        *)
(* where kind is "num" for a finite number of value m * 10^e (a decimal    *)
(* floating-point number: m = 0, or 10^7 <= |m| < 10^8, eight significant  *)
(* digits), and "inf", "ninf", "nan", "undefined", "null" for the values   *)
(* that are not finite numbers.  The arithmetic operators below are the    *)
(* IEEE-754 ones of the source (+ - * / Math.exp Math.round Math.abs       *)
(* Math.max Math.min) on that representation: they overflow to the         *)
(* infinities, produce NaN where IEEE-754 does, and round each result to   *)
(* the eight digits kept.  Negative zero is not distinguished from zero:   *)
(* no output of the program depends on the sign of a zero except through   *)
(* JSON.stringify, which prints both as 0.                                 *)
(***************************************************************************)
EXTENDS Integers, Sequences, FiniteSets, TLC

(***************************************************************************)
(* Bounds of the model.                                                    *)
(***************************************************************************)
\* finite sample ratings are the multiples of 0.60 in -0.60*MaxIdx .. 0.60*MaxIdx
MaxIdx == 10
\* a standings row has playedGames in 0..MaxPlayed, points in 0..MaxPoints and goalsFor,
\* goalsAgainst in 0..MaxGoals (or the field is missing)
MaxPlayed == 3
MaxPoints == 4
MaxGoals == 3
\* the external data (API answers, feeds, the clock) of a script run has a version in
\* 1..MaxVersion
MaxVersion == 2
\* a matches response keeps at most MaxFixtures fixtures
MaxFixtures == 12
\* the standings and hda of at most MaxKept kept fixtures are followed
MaxKept == 2

(***************************************************************************)
(* JavaScript numbers.                                                     *)
(***************************************************************************)
Fin(m, e) == [kind |-> "num", m |-> m, e |-> e]
Zero == Fin(0, 0)
NaN == [kind |-> "nan", m |-> 0, e |-> 0]
PosInf == [kind |-> "inf", m |-> 0, e |-> 0]
NegInf == [kind |-> "ninf", m |-> 0, e |-> 0]
Undefined == [kind |-> "undefined", m |-> 0, e |-> 0]
Null == [kind |-> "null", m |-> 0, e |-> 0]

Sgn(n) == IF n < 0 THEN -1 ELSE 1
AbsI(n) == IF n < 0 THEN -n ELSE n
Pow10(n) == 10 ^ n

\* the infinity of sign s
InfOf(s) == IF s > 0 THEN PosInf ELSE NegInf

\* the sign of a number that is not NaN (a zero counts as positive)
SignOf(x) == IF x.kind = "inf" THEN 1 ELSE IF x.kind = "ninf" THEN -1 ELSE Sgn(x.m)

\* the number of decimal digits a (1 <= a < 2^31) has beyond eight (negative: short of)
Shift(a) ==
  CASE a >= 1000000000 -> 2
    [] a >= 100000000 -> 1
    [] a >= 10000000 -> 0
    [] a >= 1000000 -> -1
    [] a >= 100000 -> -2
    [] a >= 10000 -> -3
    [] a >= 1000 -> -4
    [] a >= 100 -> -5
    [] a >= 10 -> -6
    [] OTHER -> -7

\* the eight leading digits of a (sh = Shift(a))
Mantissa(a, sh) == IF sh > 0 THEN a \div Pow10(sh) ELSE a * Pow10(-sh)

\* the double of sign s, mantissa a and exponent e: overflow above Number.MAX_VALUE
\* (1.7976931e308) to an infinity, underflow below Number.MIN_VALUE (about 1e-324)
\* to zero
Pack(s, a, e) ==
  CASE e > 301 \/ (e = 301 /\ a > 17976931) -> InfOf(s)
    [] e < -331 -> Zero
    [] OTHER -> Fin(s * a, e)

NormShift(m, e, sh) == Pack(Sgn(m), Mantissa(AbsI(m), sh), e + sh)

\* the double of value m * 10^e, eight digits kept
Norm(m, e) == IF m = 0 THEN Zero ELSE NormShift(m, e, Shift(AbsI(m)))

\* a number literal of the source: n * 10^e
Num(n, e) == Norm(n, e)
One == Num(1, 0)

\* !Number.isNaN(Number(x))-style guard: lets the infinities through
isNaNGuard(x) == x.kind \notin {"nan", "undefined", "null"}

\* Number.isFinite(x): false for anything that is not a number as well
IsFinite(x) == x.kind = "num"

\* typeof x === "number"
IsNumber(x) == x.kind \in {"num", "inf", "ninf", "nan"}

\* unary minus
FNeg(x) ==
  CASE x.kind = "num" -> Fin(-x.m, x.e)
    [] x.kind = "inf" -> NegInf
    [] x.kind = "ninf" -> PosInf
    [] OTHER -> NaN

\* Math.abs
FAbs(x) ==
  CASE x.kind = "num" -> Fin(AbsI(x.m), x.e)
    [] x.kind \in {"inf", "ninf"} -> PosInf
    [] OTHER -> NaN

\* big + small for finite non-zero numbers with big.e >= small.e: the smaller one is
\* aligned to the larger (one guard digit kept)
AddAligned(big, small) ==
  IF big.e - small.e > 9 THEN big
  ELSE Norm(big.m * 10 + Sgn(small.m) * ((AbsI(small.m) * 10) \div Pow10(big.e - small.e)),
            big.e - 1)

\* a + b on numbers (NaN, infinities included)
FAdd(x, y) ==
  CASE x.kind = "nan" \/ y.kind = "nan" -> NaN
    [] x.kind # "num" /\ y.kind # "num" /\ y.kind # x.kind -> NaN
    [] x.kind # "num" -> x
    [] y.kind # "num" -> y
    [] x.m = 0 -> y
    [] y.m = 0 -> x
    [] x.e >= y.e -> AddAligned(x, y)
    [] OTHER -> AddAligned(y, x)

\* a - b
FSub(x, y) == FAdd(x, FNeg(y))

\* the nine leading digits of (top * 10^8 + low) given low < 2 * 10^8
MulTop(top, low) == (top + (low \div 100000000)) * 10 + ((low % 100000000) \div 10000000)

\* the columns of the product of two mantissas split in halves of four digits
MulColumns(hh, mid, ll) == MulTop(hh + (mid \div 10000), (mid % 10000) * 10000 + ll)

\* the nine leading digits of a * b for 10^7 <= a, b < 10^8 (a * b does not fit a
\* 32-bit integer)
MulMantissa(a, b) ==
  MulColumns((a \div 10000) * (b \div 10000),
             (a \div 10000) * (b % 10000) + (a % 10000) * (b \div 10000),
             (a % 10000) * (b % 10000))

\* a * b
FMul(x, y) ==
  CASE x.kind = "nan" \/ y.kind = "nan" -> NaN
    [] (x.kind = "num" /\ x.m = 0 /\ y.kind # "num") \/ (y.kind = "num" /\ y.m = 0 /\ x.kind # "num") -> NaN
    [] x.kind # "num" \/ y.kind # "num" -> InfOf(SignOf(x) * SignOf(y))
    [] x.m = 0 \/ y.m = 0 -> Zero
    [] OTHER -> Norm(Sgn(x.m) * Sgn(y.m) * MulMantissa(AbsI(x.m), AbsI(y.m)), x.e + y.e + 7)

\* floor(a * 10^8 / b) for 0 < a, b < 10^8, by long division, a digit at a time
\* (r * 10 < 10^9 fits a 32-bit integer, a * 10^8 does not)
LongDiv(a, b) ==
  LET r0 == a % b
      r1 == (r0 * 10) % b
      r2 == (r1 * 10) % b
      r3 == (r2 * 10) % b
      r4d == (r3 * 10) % b
      r5 == (r4d * 10) % b
      r6 == (r5 * 10) % b
      r7 == (r6 * 10) % b
  IN (a \div b) * 100000000 + ((r0 * 10) \div b) * 10000000 + ((r1 * 10) \div b) * 1000000
       + ((r2 * 10) \div b) * 100000 + ((r3 * 10) \div b) * 10000 + ((r4d * 10) \div b) * 1000
       + ((r5 * 10) \div b) * 100 + ((r6 * 10) \div b) * 10 + ((r7 * 10) \div b)

\* a / b
FDiv(x, y) ==
  CASE x.kind = "nan" \/ y.kind = "nan" -> NaN
    [] x.kind # "num" /\ y.kind # "num" -> NaN
    [] x.kind # "num" -> InfOf(SignOf(x) * SignOf(y))
    [] y.kind # "num" -> Zero
    [] y.m = 0 /\ x.m = 0 -> NaN
    [] y.m = 0 -> InfOf(Sgn(x.m))
    [] x.m = 0 -> Zero
    [] OTHER -> Norm(Sgn(x.m) * Sgn(y.m) * LongDiv(AbsI(x.m), AbsI(y.m)), x.e - y.e - 8)

\* the sign of a difference d = a - b says a < b
IsNegative(d) == d.kind = "ninf" \/ d.m < 0

\* a < b on numbers (false when either is NaN)
FLt(x, y) ==
  CASE x.kind = "nan" \/ y.kind = "nan" -> FALSE
    [] x = y -> FALSE
    [] x.kind = "ninf" \/ y.kind = "inf" -> TRUE
    [] x.kind = "inf" \/ y.kind = "ninf" -> FALSE
    [] OTHER -> IsNegative(FSub(x, y))

\* Math.max(a, b), Math.min(a, b)
FMax(x, y) == IF x.kind = "nan" \/ y.kind = "nan" THEN NaN ELSE IF FLt(x, y) THEN y ELSE x
FMin(x, y) == IF x.kind = "nan" \/ y.kind = "nan" THEN NaN ELSE IF FLt(y, x) THEN y ELSE x

\* the integer part (towards zero) of a finite x with |x| < 10^4
TruncInt(x) ==
  CASE x.m = 0 -> 0
    [] x.e >= 0 -> x.m * Pow10(x.e)
    [] -x.e > 8 -> 0
    [] OTHER -> Sgn(x.m) * (AbsI(x.m) \div Pow10(-x.e))

\* one Horner step of the Taylor polynomial of e^r: 1 + r * acc / j
ExpStep(r, acc, j) == FAdd(One, FDiv(FMul(r, acc), Num(j, 0)))

\* e^r for |r| <= ln(10)/2 (up to rounding): the Taylor polynomial of degree j in
\* Horner form, from the innermost term acc outwards
RECURSIVE ExpSeries(_, _, _)
ExpSeries(r, acc, j) ==
  CASE r.kind # "num" \/ acc.kind # "num" -> NaN
    [] j = 0 -> acc
    [] OTHER -> ExpSeries(r, ExpStep(r, acc, j), j - 1)

\* n = round(t / ln 10), for a finite t with |t| < 10^4
ExpQuotient(t) ==
  TruncInt(FAdd(FMul(t, Fin(43429448, -8)), Fin(Sgn(t.m) * 50000000, -8)))

\* r = t - n * ln 10, with ln 10 = 2.302 + 0.00058509299 so that n * 2.302 is exact
ExpRemainder(t, fn) ==
  FSub(FSub(t, FMul(fn, Fin(23020000, -7))), FMul(fn, Fin(58509299, -11)))

\* s * 10^n
ExpScale(s, n) == IF s.kind = "num" /\ s.m # 0 THEN Norm(s.m, s.e + n) ELSE s

\* e^t = 10^n * e^r; beyond 10^309 the result is an infinity, below 10^-340 zero
ExpReduced(t, n) ==
  CASE n > 309 -> PosInf
    [] n < -340 -> Zero
    [] OTHER -> ExpScale(ExpSeries(ExpRemainder(t, Num(n, 0)), One, 13), n)

\* Math.exp(t)
FExp(t) ==
  CASE t.kind = "inf" -> PosInf
    [] t.kind = "ninf" -> Zero
    [] t.kind # "num" -> NaN
    [] t.m = 0 -> One
    [] t.e >= -3 -> IF t.m > 0 THEN PosInf ELSE Zero
    [] OTHER -> ExpReduced(t, ExpQuotient(t))

\* Math.round(x): floor(x + 0.5); NaN and the infinities are returned as they are
FRound(x) ==
  CASE x.kind # "num" -> x
    [] x.m = 0 -> Zero
    [] x.e >= 0 -> x
    [] -x.e > 9 -> Zero
    [] OTHER -> Num((x.m + 5 * Pow10(-x.e - 1)) \div Pow10(-x.e), 0)

(***************************************************************************)
(* generate-upcoming.mjs: computeHDA                                       *)
(***************************************************************************)
clamp(n, lo, hi) == FMax(lo, FMin(hi, n))

\* r4 of computeHDA: Math.round(n * 10000) / 10000
r4Coarse(n) == FDiv(FRound(FMul(n, Num(1000, 0))), Num(1000, 0))
r4(n) == FDiv(FRound(FMul(n, Num(10000, 0))), Num(10000, 0))

fallbackThirds == [home |-> Num(33, -2), draw |-> Num(33, -2), away |-> Num(33, -2)]
fallbackHDA == [home |-> Num(34, -2), draw |-> Num(32, -2), away |-> Num(34, -2)]

homeAdvNone == Zero
homeAdv == Num(18, -2)

kUnit == One
k == Num(165, -2)

\* 1 / (1 + Math.exp(-k * x))
winNoDrawExpForm(x) == FDiv(FExp(FMul(k, x)), FAdd(One, FExp(FMul(k, x))))
winNoDrawSignLost(x) == FDiv(One, FAdd(One, FExp(FMul(k, x))))
winNoDraw(x) == FDiv(One, FAdd(One, FExp(FMul(FNeg(k), x))))

\* Math.exp(-Math.abs(diff) * 1.25)
closenessSigned(diff) == FExp(FMul(FNeg(diff), Num(125, -2)))
closeness(diff) == FExp(FMul(FNeg(FAbs(diff)), Num(125, -2)))

\* draw = clamp(0.22 + 0.12 * closeness, 0.18, 0.36)
drawFromFloor(diff) ==
  clamp(FAdd(Num(18, -2), FMul(Num(12, -2), closeness(diff))), Num(18, -2), Num(36, -2))
draw(diff) ==
  clamp(FAdd(Num(22, -2), FMul(Num(12, -2), closeness(diff))), Num(18, -2), Num(36, -2))

\* lines 201-204: the rest 1 - draw is split between home and away by winNoDraw
splitRemaining(d, w) ==
  [draw |-> d,
   home |-> FMul(FSub(One, d), w),
   away |-> FMul(FSub(One, d), FSub(One, w))]

\* lines 206-213: the three values are divided by their sum, then rounded by r4
normalizeAndRound(raw) ==
  LET s == FAdd(FAdd(raw.home, raw.draw), raw.away)
  IN [home |-> r4(FDiv(raw.home, s)),
      draw |-> r4(FDiv(raw.draw, s)),
      away |-> r4(FDiv(raw.away, s))]

\* the guard of line 185: both ratings pass Number.isFinite
inputsNotNaN(homeRating, awayRating) == isNaNGuard(homeRating) /\ isNaNGuard(awayRating)
inputsFinite(homeRating, awayRating) == IsFinite(homeRating) /\ IsFinite(awayRating)

computeHDA(homeRating, awayRating) ==
  LET diff == FSub(homeRating, awayRating)
      x == FAdd(diff, homeAdv)
      w == winNoDraw(x)
      d == draw(diff)
  IN CASE ~inputsFinite(homeRating, awayRating) -> fallbackHDA
       [] IsNumber(w) /\ IsNumber(d) -> normalizeAndRound(splitRemaining(d, w))

(***************************************************************************)
(* generate-upcoming.mjs: fetchStandingsRatingsByCompetitionId             *)
(*                                                                         *)
(* A standings row is [teamId, playedGames, points, goalsFor,              *)
(* goalsAgainst]: teamId is r?.team?.id with 0 for a missing (or zero) id, *)
(* the other fields are JavaScript values.  A standings table is           *)
(* [type, table], the response [ok, isArray, standings]: ok is false when  *)
(* fetchFD throws, isArray says json.standings is an array.                *)
(***************************************************************************)
\* Number(x)
ToNumber(x) ==
  CASE x.kind = "undefined" -> NaN
    [] x.kind = "null" -> Zero
    [] OTHER -> x

safeNum(x, fallback) == IF IsFinite(ToNumber(x)) THEN ToNumber(x) ELSE fallback

\* String.prototype.toUpperCase on the type names that occur
toUpperCase(str) ==
  CASE str = "total" -> "TOTAL"
    [] str = "home" -> "HOME"
    [] OTHER -> str

\* the consts of the loop body, lines 154-158
playedUnguarded(r) == safeNum(r.playedGames, One)
played(r) == FMax(One, safeNum(r.playedGames, One))
points(r) == safeNum(r.points, Zero)
gf(r) == safeNum(r.goalsFor, Zero)
ga(r) == safeNum(r.goalsAgainst, Zero)
gd(r) == FSub(gf(r), ga(r))

\* lines 160-164: rating = ppg + gdpg * 0.35 + gFpg * 0.10
rating(r) ==
  FAdd(FAdd(FDiv(points(r), played(r)), FMul(FDiv(gd(r), played(r)), Num(35, -2))),
       FMul(FDiv(gf(r), played(r)), Num(10, -2)))

\* the object of map.set (position and name left out)
ratingEntry(r) ==
  [rating |-> rating(r), played |-> played(r), points |-> points(r),
   gf |-> gf(r), ga |-> ga(r), gd |-> gd(r)]

NoTable == [type |-> "", table |-> << >>]
EmptyMap == [t \in {} |-> ratingEntry([teamId |-> 0, playedGames |-> Undefined, points |-> Undefined, goalsFor |-> Undefined, goalsAgainst |-> Undefined])]

\* tables.find(s => safeStr(s?.type).toUpperCase() === "TOTAL") || tables[0]
isTotal(tbl) == toUpperCase(tbl.type) = "TOTAL"
total(tables) ==
  CASE \E i \in DOMAIN tables : isTotal(tables[i]) ->
         tables[CHOOSE i \in DOMAIN tables :
                  isTotal(tables[i]) /\ \A j \in DOMAIN tables : isTotal(tables[j]) => i <= j]
    [] tables # << >> -> tables[1]
    [] OTHER -> NoTable

\* the index of the row whose entry the map holds for teamId in the end: map.set of a
\* later row replaces the entry of an earlier one
lastRowOf(rows, teamId) ==
  CHOOSE i \in DOMAIN rows :
    rows[i].teamId = teamId /\ \A j \in DOMAIN rows : rows[j].teamId = teamId => j <= i

\* the loop of lines 150-176: rows without a team id are skipped
ratingsOfRows(rows) ==
  [t \in {rows[i].teamId : i \in DOMAIN rows} \ {0} |-> ratingEntry(rows[lastRowOf(rows, t)])]

\* the map returned for the parsed body json
fetchStandingsRatingsByCompetitionId(json) ==
  ratingsOfRows(total(IF json.isArray THEN json.standings ELSE << >>).table)

\* lines 358-363: a fetch that throws leaves an empty map in standingsCache
cachedStandings(res) ==
  IF res.ok THEN fetchStandingsRatingsByCompetitionId(res) ELSE EmptyMap

(***************************************************************************)
(* The calls of computeHDA that are checked: every pair of sample inputs.  *)
(***************************************************************************)
\* sample finite ratings: the multiples of 0.60 up to 0.60 * MaxIdx in magnitude, and
\* +-1e308 (whose difference overflows to an infinity)
FiniteRatings ==
  {Num(60 * i, -2) : i \in (-MaxIdx)..MaxIdx} \cup {Num(1, 308), Num(-1, 308)}
NonFiniteRatings == {NaN, PosInf, NegInf, Undefined, Null}
RatingInputs == FiniteRatings \cup NonFiniteRatings

NoHDA == [home |-> Undefined, draw |-> Undefined, away |-> Undefined]

\* sample standings rows: every combination of the field values
FieldValues(max) == {Undefined} \cup {Num(i, 0) : i \in 0..max}
Rows ==
  [teamId : {0, 1},
   playedGames : FieldValues(MaxPlayed) \cup {Null},
   points : FieldValues(MaxPoints),
   goalsFor : FieldValues(MaxGoals),
   goalsAgainst : FieldValues(MaxGoals)]

\* another club's row, in second place or in the table of another type
OtherRow ==
  [teamId |-> 2, playedGames |-> Num(2, 0), points |-> Num(6, 0),
   goalsFor |-> Num(5, 0), goalsAgainst |-> Num(1, 0)]

\* sample bodies of the standings response around a row r
StandingsOf(r) ==
  {<<[type |-> "TOTAL", table |-> <<r>>]>>,
   <<[type |-> "HOME", table |-> <<OtherRow>>], [type |-> "total", table |-> <<r, OtherRow>>]>>,
   <<[type |-> "HOME", table |-> <<r>>], [type |-> "AWAY", table |-> <<OtherRow>>]>>}

NoResponse == [ok |-> FALSE, isArray |-> FALSE, standings |-> << >>]
Responses ==
  {NoResponse, [ok |-> TRUE, isArray |-> FALSE, standings |-> << >>],
   [ok |-> TRUE, isArray |-> TRUE, standings |-> << >>]}
    \cup {[ok |-> TRUE, isArray |-> TRUE, standings |-> st] : st \in UNION {StandingsOf(r) : r \in Rows}}

\* the data files of assets/data: the JSON files the scripts write, and tv.json, which is
\* maintained by hand
FileNames ==
  {"scores.json", "upcoming.json", "transfers.json", "ai-news.json", "signals.json", "tv.json"}

\* the content of a file: the script that wrote it (by), the payload's mode, the version
\* of the external data and clock it was made from (v), and the file contents that went
\* into it (from);
\* NoContent is a missing file, NotWritten stands for "the run wrote nothing"
NoContent == [by |-> "", mode |-> "", v |-> 0, from |-> {}]
NotWritten == [by |-> "-", mode |-> "", v |-> 0, from |-> {}]
NoFiles == [f \in FileNames |-> NoContent]

\* an output file: missing, not parseable as JSON, or holding a payload
NoPayload == [mode |-> "", items |-> << >>, dateFrom |-> 0, dateTo |-> 0, competitions |-> << >>]
AbsentFile == [state |-> "absent", payload |-> NoPayload]
UnparseableFile == [state |-> "unparseable", payload |-> NoPayload]
JsonFile(payload) == [state |-> "json", payload |-> payload]

\* the environment variables of a generator run, as set or "" when not set
NoEnv == [token |-> "", daysBack |-> "", daysForward |-> "", compCodes |-> << >>]

\* a response of football-data.org: the status, the Retry-After header and the items of
\* the body; NoRes before the first response
NoHeader == [form |-> "none", n |-> 0]
NoRes == [status |-> 0, ra |-> NoHeader, items |-> << >>]

\* what fetchFD ended with: nothing yet, a returned body, or a thrown error with its
\* status field (hasStatus false: the error has none)
NoOutcome == [kind |-> "pending", status |-> 0, hasStatus |-> FALSE, items |-> << >>]

\* the payload of generate-upcoming.mjs before it is built
NoUpcoming == [limit |-> Zero, items |-> << >>]

\* a JSON value of ai-news.json / signals.json, and the output file: missing, empty,
\* not parseable, or JSON text (pretty: laid out as JSON.stringify(obj, null, 2) does)
NoValue == [updated |-> "", items |-> << >>]
NoOutput == [state |-> "absent", value |-> NoValue, pretty |-> FALSE]

\* what callOpenAI gave main: null, or an object with its items field
NullObj == [kind |-> "null", itemsKind |-> "none", items |-> << >>]

\* the six data files of the page and its five sections
DataFiles == {"leagues.json", "scores.json", "upcoming.json", "transfers.json", "ai-news.json", "signals.json"}
Sections == {"leagues", "finalScores", "upcoming", "transfers", "aiNews"}

\* what safeFetchJson resolved with: nothing yet, null, or an object with its items field
Pending == [kind |-> "pending", itemsKind |-> "none", n |-> 0]
JsonNull == [kind |-> "null", itemsKind |-> "none", n |-> 0]

\* standingsCache of fetchFootballDataUpcoming before any competition is fetched
NoStandings == [c \in {} |-> EmptyMap]

VARIABLES
  \* computeHDA and the standings fetch
  homeRating, awayRating, hda, response, standingsCache, pc,
  \* one script run in two checkouts (A and B) of the data directory
  filesA, filesB, ran, writtenA, writtenB,
  \* one run of a football-data generator: the script run, its environment, the output file
  \* found and as it is now, fetchFD's loop, the clock (ms) and the exit code
  generator, env, fileAtStart, outFile, attempt, requests, wait, lastRes, outcome, window,
  now, exitCode,
  \* the trimming of generate-upcoming.mjs: NETTHUD_UPCOMING_LIMIT, the kept fixtures and
  \* the payload
  limitText, keep, upcoming,
  \* one run of generate-ai-news-openai.mjs or of its signals twin: the key, the reply of
  \* the API, the output file found and as it is now, main's existing and obj
  twin, apiKey, reply, outAtStart, outPath, existing, obj,
  \* the page script: how each data file loads, what safeFetchJson gave, what each
  \* section shows, and whether window.NETTHUD is assigned
  loads, json, rendered, netthud,
  \* the standings and hda of the kept fixtures: the fixtures, the standings reply of
  \* each competition, the competition ids gathered, how many are fetched, standingsCache
  \* and the items
  keptMatches, replyOf, compIds, fetched, cacheOf, outItems

hdaVars == <<homeRating, awayRating, hda, response, standingsCache>>
scriptVars == <<filesA, filesB, ran, writtenA, writtenB>>
runVars ==
  <<generator, env, fileAtStart, outFile, attempt, requests, wait, lastRes, outcome, window,
    now, exitCode>>

limitVars == <<limitText, keep, upcoming>>

openaiVars == <<twin, apiKey, reply, outAtStart, outPath, existing, obj>>

browserVars == <<loads, json, rendered, netthud>>

fixtureVars == <<keptMatches, replyOf, compIds, fetched, cacheOf, outItems>>

vars == <<hdaVars, pc, scriptVars, runVars, limitVars, openaiVars, browserVars, fixtureVars>>

\* no window of dates computed yet
NoWindow == [dateFrom |-> 0, dateTo |-> 0, competitions |-> << >>]

RunIdle ==
  /\ generator = ""
  /\ env = NoEnv
  /\ fileAtStart = AbsentFile
  /\ outFile = AbsentFile
  /\ attempt = 0
  /\ requests = 0
  /\ wait = 0
  /\ lastRes = NoRes
  /\ outcome = NoOutcome
  /\ window = NoWindow
  /\ now = 0
  /\ exitCode = -1

\* the values of the variables a specification does not use
HdaIdle ==
  /\ homeRating = Null
  /\ awayRating = Null
  /\ hda = NoHDA
  /\ response = NoResponse
  /\ standingsCache = EmptyMap
ScriptsIdle ==
  /\ filesA = NoFiles
  /\ filesB = NoFiles
  /\ ran = ""
  /\ writtenA = NotWritten
  /\ writtenB = NotWritten

(***************************************************************************)
(* Spec: computeHDA called on every pair of sample inputs.                 *)
(***************************************************************************)
LimitIdle ==
  /\ limitText = ""
  /\ keep = << >>
  /\ upcoming = NoUpcoming

OpenaiIdle ==
  /\ twin = ""
  /\ apiKey = ""
  /\ reply = ""
  /\ outAtStart = NoOutput
  /\ outPath = NoOutput
  /\ existing = NoValue
  /\ obj = NullObj

BrowserIdle ==
  /\ loads = [f \in DataFiles |-> ""]
  /\ json = [f \in DataFiles |-> Pending]
  /\ rendered = [sec \in Sections |-> "none"]
  /\ netthud = FALSE

FixturesIdle ==
  /\ keptMatches = << >>
  /\ replyOf = NoStandings
  /\ compIds = << >>
  /\ fetched = 0
  /\ cacheOf = NoStandings
  /\ outItems = << >>

Init ==
  /\ homeRating \in RatingInputs
  /\ awayRating \in RatingInputs
  /\ hda = NoHDA
  /\ response = NoResponse
  /\ standingsCache = EmptyMap
  /\ pc = "call"
  /\ ScriptsIdle
  /\ RunIdle
  /\ FixturesIdle
  /\ BrowserIdle
  /\ OpenaiIdle
  /\ LimitIdle

CallComputeHDA ==
  /\ pc = "call"
  /\ hda' = computeHDA(homeRating, awayRating)
  /\ pc' = "returned"
  /\ UNCHANGED <<homeRating, awayRating, response, standingsCache, scriptVars, runVars, limitVars, openaiVars, browserVars, fixtureVars>>

Next == CallComputeHDA

Spec == Init /\ [][Next]_vars

(***************************************************************************)
(* SpecStandings: the standings of one competition fetched and turned into *)
(* the rating map, for every sample response.                              *)
(***************************************************************************)
InitStandings ==
  /\ response \in Responses
  /\ standingsCache = EmptyMap
  /\ homeRating = Null
  /\ awayRating = Null
  /\ hda = NoHDA
  /\ pc = "fetch"
  /\ ScriptsIdle
  /\ RunIdle
  /\ FixturesIdle
  /\ BrowserIdle
  /\ OpenaiIdle
  /\ LimitIdle

FetchStandings ==
  /\ pc = "fetch"
  /\ standingsCache' = cachedStandings(response)
  /\ pc' = "fetched"
  /\ UNCHANGED <<homeRating, awayRating, hda, response, scriptVars, runVars, limitVars, openaiVars, browserVars, fixtureVars>>

NextStandings == FetchStandings

SpecStandings == InitStandings /\ [][NextStandings]_vars

(***************************************************************************)
(* Properties of computeHDA (under Spec).                                  *)
(***************************************************************************)
\* a returned probability (a multiple of 0.0001) counted in units of 0.0001
TenThousandths(v) ==
  IF v.e + 4 >= 0 THEN v.m * Pow10(v.e + 4) ELSE v.m \div Pow10(-(v.e + 4))

Returned == pc = "returned"
FiniteCall == Returned /\ IsFinite(homeRating) /\ IsFinite(awayRating)
HdaFinite(r) == IsFinite(r.home) /\ IsFinite(r.draw) /\ IsFinite(r.away)
HdaSum(r) == TenThousandths(r.home) + TenThousandths(r.draw) + TenThousandths(r.away)
HdaInUnitInterval(r) ==
  /\ HdaFinite(r)
  /\ \A p \in {r.home, r.draw, r.away} : TenThousandths(p) >= 0 /\ TenThousandths(p) <= 10000

\* C1, as stated: for finite ratings the three values returned by computeHDA (after
\* the 4-decimal rounding) lie in [0,1] and sum to 1.0 within 1e-9.  The values are
\* multiples of 0.0001, so a sum within 1e-9 of 1 is a sum of exactly 10000 units.
C1_SumIsOne == FiniteCall => HdaInUnitInterval(hda) /\ HdaSum(hda) = 10000

\* C1, amended: for finite ratings the three returned values lie in [0,1] and sum to
\* 1.0 within 0.0001 (each is rounded to 4 decimals on its own, so the sum of the
\* rounded values is 0.9999, 1.0000 or 1.0001).
C1_SumWithinRounding ==
  FiniteCall => HdaInUnitInterval(hda) /\ HdaSum(hda) \in {9999, 10000, 10001}

C1_Witness == FiniteCall /\ HdaInUnitInterval(hda) /\ HdaSum(hda) = 9999

\* C2: whenever homeRating or awayRating is not a finite number (NaN, +Infinity,
\* -Infinity, undefined or null, on either or both sides), computeHDA returns exactly
\* { home: 0.34, draw: 0.32, away: 0.34 }.
C2_FallbackOnNonFinite ==
  (Returned /\ (homeRating \in NonFiniteRatings \/ awayRating \in NonFiniteRatings))
    => /\ HdaFinite(hda)
       /\ TenThousandths(hda.home) = 3400
       /\ TenThousandths(hda.draw) = 3200
       /\ TenThousandths(hda.away) = 3400

C2_Witness ==
  /\ Returned
  /\ homeRating = PosInf
  /\ awayRating = Num(120, -2)
  /\ TenThousandths(hda.draw) = 3200

\* C3: computeHDA cannot fail: for every pair of inputs (finite or not, however
\* large in magnitude) it returns a triple whose home, draw and away are all finite
\* numbers.
C3_AlwaysFiniteTriple == Returned => HdaFinite(hda)

C3_Witness ==
  /\ Returned
  /\ homeRating = Num(1, 308)
  /\ awayRating = Num(-1, 308)
  /\ FSub(homeRating, awayRating) = PosInf
  /\ HdaFinite(hda)

\* C4, as stated: for a fixed finite awayRating and finite h1 < h2, computeHDA(h2, a)
\* has a strictly greater home and a strictly smaller away than computeHDA(h1, a).
C4_StrictlyMonotone ==
  FiniteCall =>
    \A h2 \in FiniteRatings :
      FLt(homeRating, h2) =>
        LET higher == computeHDA(h2, awayRating)
        IN /\ TenThousandths(higher.home) > TenThousandths(hda.home)
           /\ TenThousandths(higher.away) < TenThousandths(hda.away)

\* C4, amended: for a fixed finite awayRating and finite h1 < h2, computeHDA(h2, a)
\* has a home that is greater than or equal to, and an away that is less than or equal
\* to, that of computeHDA(h1, a) (equal once both have been rounded to the same 4
\* decimals, as they are for large rating gaps).
C4_WeaklyMonotone ==
  FiniteCall =>
    \A h2 \in FiniteRatings :
      FLt(homeRating, h2) =>
        LET higher == computeHDA(h2, awayRating)
        IN /\ TenThousandths(higher.home) >= TenThousandths(hda.home)
           /\ TenThousandths(higher.away) <= TenThousandths(hda.away)

C4_Witness ==
  /\ FiniteCall
  /\ \E h2 \in FiniteRatings :
       /\ FLt(homeRating, h2)
       /\ TenThousandths(computeHDA(h2, awayRating).home) > TenThousandths(hda.home)
       /\ TenThousandths(computeHDA(h2, awayRating).away) < TenThousandths(hda.away)

\* C5, as stated: for finite a and b, computeHDA(a, b).home equals
\* computeHDA(b, a).away.
C5_HomeEqualsSwappedAway ==
  FiniteCall =>
    TenThousandths(hda.home) = TenThousandths(computeHDA(awayRating, homeRating).away)

\* C5, amended: for finite a and b, computeHDA(a, b).home is greater than or equal
\* to computeHDA(b, a).away, and strictly greater when a = b (the fixed home-advantage
\* offset favours the home side); the two calls return the same draw.
C5_HomeAtLeastSwappedAway ==
  FiniteCall =>
    LET swapped == computeHDA(awayRating, homeRating)
    IN /\ TenThousandths(hda.home) >= TenThousandths(swapped.away)
       /\ homeRating = awayRating => TenThousandths(hda.home) > TenThousandths(swapped.away)
       /\ TenThousandths(hda.draw) = TenThousandths(swapped.draw)

C5_Witness ==
  /\ FiniteCall
  /\ homeRating = Num(60, -2)
  /\ awayRating = Num(-60, -2)
  /\ TenThousandths(hda.home) > TenThousandths(computeHDA(awayRating, homeRating).away)

\* the rating gap |homeRating - awayRating| is at least 10 (or has overflowed)
ExtremeGap == FLt(Num(999, -2), FAbs(FSub(homeRating, awayRating)))
WinnerShare ==
  IF FLt(awayRating, homeRating) THEN TenThousandths(hda.home) ELSE TenThousandths(hda.away)

\* C6, as stated: as the gap between the ratings grows without bound, the returned
\* draw approaches 0.18 and the stronger side's probability approaches 0.82.  (After
\* the rounding to 4 decimals a limit is reached exactly; a tolerance of 0.0005 is
\* allowed here.)
C6_DrawApproachesFloor ==
  (FiniteCall /\ ExtremeGap) =>
    /\ TenThousandths(hda.draw) \in 1795..1805
    /\ WinnerShare \in 8195..8205

\* C6, amended: as the gap between the ratings grows without bound, the returned
\* draw approaches 0.22 (0.22 + 0.12 * closeness never goes below 0.22, so the clamp's
\* lower bound 0.18 is never reached) and the stronger side's probability approaches
\* 1 - 0.22 = 0.78: for gaps of 10 or more they are 0.22 and 0.78 exactly, and no
\* call with finite ratings returns a draw below 0.22.
C6_DrawApproachesBase ==
  /\ (FiniteCall /\ ExtremeGap) =>
       /\ TenThousandths(hda.draw) = 2200
       /\ WinnerShare = 7800
  /\ FiniteCall => TenThousandths(hda.draw) >= 2200

C6_Witness ==
  /\ FiniteCall
  /\ ExtremeGap
  /\ homeRating = Num(600, -2)
  /\ awayRating = Num(-480, -2)
  /\ TenThousandths(hda.draw) = 2200
  /\ TenThousandths(hda.home) = 7800

IsExampleCall == Returned /\ homeRating = Num(18, -1) /\ awayRating = Num(12, -1)

\* C7, as stated: computeHDA(1.8, 1.2) returns home in [0.50, 0.55], draw in
\* [0.25, 0.28] and away in [0.18, 0.22].
C7_ExampleBands ==
  IsExampleCall =>
    /\ TenThousandths(hda.home) \in 5000..5500
    /\ TenThousandths(hda.draw) \in 2500..2800
    /\ TenThousandths(hda.away) \in 1800..2200

\* C7, amended: computeHDA(1.8, 1.2) returns a home-favoured triple with home in
\* [0.56, 0.57], draw in [0.25, 0.28] and away in [0.15, 0.16] (it returns
\* { home: 0.5668, draw: 0.2767, away: 0.1565 }).
C7_ExampleBandsAmended ==
  IsExampleCall =>
    /\ TenThousandths(hda.home) \in 5600..5700
    /\ TenThousandths(hda.draw) \in 2500..2800
    /\ TenThousandths(hda.away) \in 1500..1600
    /\ TenThousandths(hda.home) > TenThousandths(hda.away)

C7_Witness ==
  /\ IsExampleCall
  /\ TenThousandths(hda.home) = 5668
  /\ TenThousandths(hda.draw) = 2767
  /\ TenThousandths(hda.away) = 1565

\* C8: for every finite r, computeHDA(r, r) returns the largest draw that computeHDA
\* returns for any finite inputs (0.34), and its home is strictly greater than its
\* away.
C8_EqualRatingsMaxDraw ==
  (FiniteCall /\ homeRating = awayRating) =>
    /\ TenThousandths(hda.draw) = 3400
    /\ \A h \in FiniteRatings, a \in FiniteRatings :
         TenThousandths(computeHDA(h, a).draw) <= TenThousandths(hda.draw)
    /\ TenThousandths(hda.home) > TenThousandths(hda.away)

C8_Witness ==
  /\ FiniteCall
  /\ homeRating = Num(1, 308)
  /\ awayRating = Num(1, 308)
  /\ TenThousandths(hda.draw) = 3400
  /\ TenThousandths(hda.home) > TenThousandths(hda.away)

\* C9: the fallback triple returned for non-finite input, {0.34, 0.32, 0.34}, sums to
\* exactly 1.00 (as a sum of units of 0.0001, and as the sum home + draw + away in
\* the arithmetic of the program).
C9_FallbackSumsToOne ==
  (Returned /\ ~(IsFinite(homeRating) /\ IsFinite(awayRating))) =>
    /\ HdaSum(hda) = 10000
    /\ FAdd(FAdd(hda.home, hda.draw), hda.away) = One

C9_Witness ==
  /\ Returned
  /\ homeRating = Undefined
  /\ awayRating = NegInf
  /\ HdaSum(hda) = 10000

(***************************************************************************)
(* Properties of fetchStandingsRatingsByCompetitionId (under               *)
(* SpecStandings).                                                         *)
(***************************************************************************)
Fetched == pc = "fetched"

\* the rows the ratings are computed from: those of the table chosen in the response
StoredRows ==
  IF response.ok /\ response.isArray THEN total(response.standings).table ELSE << >>

\* a number counted in units of 0.000001 (rounded down)
Millionths(v) ==
  IF v.e + 6 >= 0 THEN v.m * Pow10(v.e + 6) ELSE v.m \div Pow10(-(v.e + 6))

\* the integer a row's field holds, 0 when the field is missing or null
FieldInt(v) == IF v.kind = "num" THEN TruncInt(v) ELSE 0

\* the row has all four statistics
HasAllFields(r) ==
  \A v \in {r.playedGames, r.points, r.goalsFor, r.goalsAgainst} : v.kind = "num"

\* 100 * g * (points/g + 0.35 * (goalsFor - goalsAgainst)/g + 0.10 * goalsFor/g), exactly
RatingTimes100Games(r) ==
  100 * FieldInt(r.points) + 35 * (FieldInt(r.goalsFor) - FieldInt(r.goalsAgainst))
    + 10 * FieldInt(r.goalsFor)

\* v is points/g + 0.35 * (goalsFor - goalsAgainst)/g + 0.10 * goalsFor/g within 0.000005
IsRatingOver(v, r, g) ==
  /\ IsFinite(v)
  /\ AbsI(Millionths(v) * g - RatingTimes100Games(r) * 10000) <= 5 * g

\* the claimed formula evaluated on the row's own fields, playedGames as the divisor
RatingOverPlayedGames(r) ==
  FAdd(FAdd(FDiv(r.points, r.playedGames),
            FMul(Num(35, -2), FDiv(FSub(r.goalsFor, r.goalsAgainst), r.playedGames))),
       FMul(Num(10, -2), FDiv(r.goalsFor, r.playedGames)))

\* C10 (as stated): for every standings row with a team id (and all its statistics),
\* the stored rating equals points/g + 0.35 * (goalsFor - goalsAgainst)/g
\* + 0.10 * goalsFor/g where g is the row's playedGames.
C10_RatingOverPlayedGames ==
  Fetched =>
    \A i \in DOMAIN StoredRows :
      StoredRows[i].teamId # 0 /\ HasAllFields(StoredRows[i]) =>
        /\ StoredRows[i].teamId \in DOMAIN standingsCache
        /\ standingsCache[StoredRows[i].teamId].rating = RatingOverPlayedGames(StoredRows[i])

\* C10 (amended): for every standings row with a team id, the stored rating is a finite
\* number equal to points/g + 0.35 * (goalsFor - goalsAgainst)/g + 0.10 * goalsFor/g
\* where g is the row's playedGames when that is at least 1 and 1 otherwise (0 or
\* missing), a missing points, goalsFor or goalsAgainst counting as 0.
C10_RatingOverAtLeastOneGame ==
  Fetched =>
    \A i \in DOMAIN StoredRows :
      StoredRows[i].teamId # 0 =>
        /\ StoredRows[i].teamId \in DOMAIN standingsCache
        /\ IsRatingOver(standingsCache[StoredRows[i].teamId].rating, StoredRows[i],
                        IF FieldInt(StoredRows[i].playedGames) >= 1
                        THEN FieldInt(StoredRows[i].playedGames) ELSE 1)

\* a club with no game played (3 points, 2:1 goals: rating 3.55 over one game) next to a
\* club with two games played (6 points, 5:1 goals: rating 3.95)
C10_Witness ==
  /\ Fetched
  /\ DOMAIN standingsCache = {1, 2}
  /\ \E i \in DOMAIN StoredRows :
       /\ StoredRows[i].teamId = 1
       /\ StoredRows[i].playedGames = Zero
       /\ StoredRows[i].points = Num(3, 0)
  /\ Millionths(standingsCache[1].rating) \in 3549999..3550000
  /\ Millionths(standingsCache[2].rating) \in 3949999..3950000

(***************************************************************************)
(* The scripts of scripts/ and the files they read and write.              *)
(***************************************************************************)
Scripts ==
  {"generate-ai-news-openai", "generate-ai-news", "generate-live", "generate-news",
   "generate-scores", "generate-signals-openai", "generate-signals", "generate-transfers",
   "generate-upcoming", "patch-upcoming-ids"}

\* how the outside world answers a run: the fetch succeeds ("ok"), ends with HTTP 429 or
\* 5xx ("temporary"), fails otherwise ("fatal"), or the API key or token is not set
\* ("nokey"); v is the version of the data and of the clock
Outcomes == {"ok", "temporary", "fatal", "nokey"}
Versions == 1..MaxVersion
Externals == [outcome : Outcomes, v : Versions]

\* a payload made from the external data alone
fresh(script, mode, ext) == [by |-> script, mode |-> mode, v |-> ext.v, from |-> {}]

\* what a reader takes from the content of file f
taken(f, files) == {<<f, files[f].by, files[f].v>>}

\* Array.isArray(json?.items) ? json.items : []  (generate-live writes scores.json with
\* "matches" and upcoming.json with "games", not "items")
itemsOf(f, files) ==
  IF files[f] = NoContent \/ files[f].by = "generate-live" THEN {} ELSE taken(f, files)

\* generate-live.mjs: demo payloads, written to three files
generateLive(ext, files) == fresh("generate-live", "demo", ext)

\* generate-news.mjs: a feed that fails is left out, the file is written all the same
generateNews(ext, files) == fresh("generate-news", "rss", ext)

\* generate-ai-news.mjs: requireEnv or a failed call throws, main's catch exits 1
generateAiNews(ext, files) ==
  IF ext.outcome = "ok" THEN fresh("generate-ai-news", "", ext) ELSE NotWritten

\* generate-transfers.mjs (demo mode; in live mode every failure is caught)
generateTransfers(ext, files) == fresh("generate-transfers", "demo", ext)

\* generate-signals.mjs, lines 80-148: scores.json and ai-news.json go into the prompt,
\* the items written are the model's answer to that prompt
generateSignals(ext, files) ==
  CASE ext.outcome = "nokey" -> fresh("generate-signals", "no-openai-key", ext)
    [] ext.outcome = "ok" ->
         [by |-> "generate-signals", mode |-> "openai", v |-> ext.v,
          from |-> itemsOf("scores.json", files) \cup itemsOf("ai-news.json", files)]
    [] OTHER -> NotWritten

\* generate-signals-openai.mjs: the prompt is built from constants
generateSignalsOpenaiFromScores(ext, files) ==
  IF ext.outcome = "ok"
  THEN [by |-> "generate-signals-openai", mode |-> "", v |-> ext.v,
        from |-> itemsOf("scores.json", files)]
  ELSE NotWritten
generateSignalsOpenai(ext, files) ==
  IF ext.outcome = "ok" THEN fresh("generate-signals-openai", "", ext) ELSE NotWritten

\* generate-scores.mjs, main: the payload, or on HTTP 429/5xx the demo payload unless
\* readJsonIfExists finds scores.json
generateScores(ext, files) ==
  CASE ext.outcome = "ok" -> fresh("generate-scores", "", ext)
    [] ext.outcome = "temporary" /\ files["scores.json"] = NoContent ->
         fresh("generate-scores", "demo", ext)
    [] OTHER -> NotWritten

\* generate-upcoming.mjs: the payload, tv looked up in tv.json (loadTvMap)
generateUpcoming(ext, files) ==
  IF ext.outcome = "ok"
  THEN [by |-> "generate-upcoming", mode |-> "", v |-> ext.v,
        from |-> IF files["tv.json"] = NoContent THEN {} ELSE taken("tv.json", files)]
  ELSE NotWritten

\* patch-upcoming-ids.mjs: upcoming.json read, its items given ids, written back
\* (readFileSync throws when the file is missing, exit 1 when it has no items array)
patchUpcomingIds(ext, files) ==
  IF itemsOf("upcoming.json", files) = {} THEN NotWritten
  ELSE [by |-> "patch-upcoming-ids", mode |-> files["upcoming.json"].mode,
        v |-> files["upcoming.json"].v, from |-> taken("upcoming.json", files)]

\* generate-ai-news-openai.mjs, main: the cleaned answer, or else what readJsonSafe
\* returned: the existing ai-news.json or the fallback { items: [], updated: null }
generateAiNewsOpenai(ext, files) ==
  CASE ext.outcome = "ok" -> fresh("generate-ai-news-openai", "", ext)
    [] files["ai-news.json"] = NoContent ->
         [by |-> "generate-ai-news-openai", mode |-> "fallback", v |-> 0, from |-> {}]
    [] OTHER ->
         [by |-> "generate-ai-news-openai", mode |-> files["ai-news.json"].mode,
          v |-> files["ai-news.json"].v, from |-> taken("ai-news.json", files)]

\* the files a script writes
WritesOf(script) ==
  CASE script \in {"generate-ai-news-openai", "generate-ai-news", "generate-news"} ->
         {"ai-news.json"}
    [] script = "generate-live" -> {"scores.json", "upcoming.json", "transfers.json"}
    [] script = "generate-scores" -> {"scores.json"}
    [] script \in {"generate-signals-openai", "generate-signals"} -> {"signals.json"}
    [] script = "generate-transfers" -> {"transfers.json"}
    [] script \in {"generate-upcoming", "patch-upcoming-ids"} -> {"upcoming.json"}

\* what a run of the script writes, given the outside world's answer and the files found
Written(script, ext, files) ==
  CASE script = "generate-ai-news-openai" -> generateAiNewsOpenai(ext, files)
    [] script = "generate-ai-news" -> generateAiNews(ext, files)
    [] script = "generate-live" -> generateLive(ext, files)
    [] script = "generate-news" -> generateNews(ext, files)
    [] script = "generate-scores" -> generateScores(ext, files)
    [] script = "generate-signals-openai" -> generateSignalsOpenai(ext, files)
    [] script = "generate-signals" -> generateSignals(ext, files)
    [] script = "generate-transfers" -> generateTransfers(ext, files)
    [] script = "generate-upcoming" -> generateUpcoming(ext, files)
    [] script = "patch-upcoming-ids" -> patchUpcomingIds(ext, files)

FilesAfter(script, ext, files) ==
  [f \in FileNames |->
     IF f \in WritesOf(script) /\ Written(script, ext, files) # NotWritten
     THEN Written(script, ext, files) ELSE files[f]]

\* what earlier runs can have left in file f (tv.json is written by hand)
WritersOf(f) ==
  IF f = "tv.json" THEN {"hand"} ELSE {script \in Scripts : f \in WritesOf(script)}
ContentsOf(f, versions) ==
  {NoContent} \cup {[by |-> w, mode |-> "", v |-> n, from |-> {}] : w \in WritersOf(f), n \in versions}

(***************************************************************************)
(* SpecScripts: the same script run, with the same answers from outside,   *)
(* in two checkouts A and B whose data files differ in one file written    *)
(* by a script.                                                            *)
(***************************************************************************)
InitScripts ==
  /\ \E sc \in ContentsOf("scores.json", {1}), up \in ContentsOf("upcoming.json", {1}),
        an \in ContentsOf("ai-news.json", {1}), tv \in ContentsOf("tv.json", {1}) :
       filesA = [NoFiles EXCEPT !["scores.json"] = sc, !["upcoming.json"] = up,
                                !["ai-news.json"] = an, !["tv.json"] = tv]
  /\ \E f \in FileNames \ {"tv.json"} : \E c \in ContentsOf(f, Versions) :
       filesB = [filesA EXCEPT ![f] = c]
  /\ ran = ""
  /\ writtenA = NotWritten
  /\ writtenB = NotWritten
  /\ pc = "run"
  /\ HdaIdle
  /\ RunIdle
  /\ FixturesIdle
  /\ BrowserIdle
  /\ OpenaiIdle
  /\ LimitIdle

\* the script's own earlier output is the same in both checkouts
AgreeOnOwn(script) ==
  \A f \in FileNames : script \in {filesA[f].by, filesB[f].by} => filesA[f] = filesB[f]

RunScript ==
  /\ pc = "run"
  /\ \E script \in Scripts, ext \in Externals :
       /\ AgreeOnOwn(script)
       /\ ran' = script
       /\ writtenA' = Written(script, ext, filesA)
       /\ writtenB' = Written(script, ext, filesB)
       /\ filesA' = FilesAfter(script, ext, filesA)
       /\ filesB' = FilesAfter(script, ext, filesB)
  /\ pc' = "ran"
  /\ UNCHANGED <<hdaVars, runVars, limitVars, openaiVars, browserVars, fixtureVars>>

NextScripts == RunScript

SpecScripts == InitScripts /\ [][NextScripts]_vars

ReadersOfOthers ==
  {"generate-signals", "patch-upcoming-ids", "generate-scores", "generate-ai-news-openai"}

Generators == {"generate-scores", "generate-upcoming", "part_004", "part_011"}

\* env(name, fallback): the fallback when the variable is unset or empty
envOr(v, fallback) == IF v = "" THEN fallback ELSE v

\* Number(text) on the texts that occur in the environments below
NumberOfText(t) ==
  CASE t = "0" -> Zero
    [] t = "1" -> One
    [] t = "2" -> Num(2, 0)
    [] t = "9" -> Num(9, 0)
    [] t = "12" -> Num(12, 0)
    [] t = "80" -> Num(80, 0)
    [] t = "2.5" -> Num(25, -1)
    [] t = "11.5" -> Num(115, -1)
    [] t = "-3" -> Num(-3, 0)
    [] t = "600" -> Num(600, 0)
    [] t = "Infinity" -> PosInf
    [] OTHER -> NaN

\* x || fallback on numbers: NaN and 0 are falsy
orElse(x, fallback) == IF x.kind = "nan" \/ (x.kind = "num" /\ x.m = 0) THEN fallback ELSE x

daysBack(e) ==
  TruncInt(FMax(Zero, FMin(Num(3, 0), orElse(NumberOfText(envOr(e.DAYS_BACK, "1")), One))))
daysForward(e) ==
  TruncInt(FMax(Zero, FMin(Num(3, 0), orElse(NumberOfText(envOr(e.DAYS_FORWARD, "1")), One))))

\* s.trim().toUpperCase() on the codes that occur
trimUpper(code) ==
  CASE code = "tsl" -> "TSL"
    [] code = " pl" -> "PL"
    [] code = " " -> ""
    [] OTHER -> code

DefaultCodes == <<"PL", "PD", "SA", "BL1", "FL1", "DED", "PPL", "TSL", "CL", "EL">>

\* parseCompAllowlistWithOrder().ordered; COMP_CODES is the variable split at commas
parseCompAllowlistWithOrder(e) ==
  IF e.COMP_CODES = << >>
    THEN DefaultCodes
    ELSE SelectSeq([i \in 1..Len(e.COMP_CODES) |-> trimUpper(e.COMP_CODES[i])],
                   LAMBDA c : c # "")

DayMs == 24 * 60 * 60 * 1000

\* yyyyMmDdUTC(utcMidnight(new Date(ms))): the UTC day, as a day number
utcDay(ms) == ms \div DayMs

\* dateFrom, dateTo and competitions as fetchFootballDataScores computes them
scoresWindow(e, clock) ==
  [dateFrom |-> utcDay(clock - daysBack(e) * DayMs),
   dateTo |-> utcDay(clock + daysForward(e) * DayMs) + 1,
   competitions |-> parseCompAllowlistWithOrder(e)]

\* the upcoming generators put no dates in their payload
upcomingWindow(e) ==
  [dateFrom |-> 0, dateTo |-> 0, competitions |-> parseCompAllowlistWithOrder(e)]

windowOf(g, e, clock) ==
  IF g \in {"generate-scores", "part_004"} THEN scoresWindow(e, clock) ELSE upcomingWindow(e)

\* the payload of a successful run
payloadOf(w, items) ==
  [mode |-> "", items |-> items, dateFrom |-> w.dateFrom, dateTo |-> w.dateTo,
   competitions |-> w.competitions]

DemoItems == <<"demo:TSL", "demo:PL", "demo:PD">>

demoPayload(dateFrom, dateTo, competitions) ==
  [mode |-> "demo", items |-> DemoItems, dateFrom |-> dateFrom, dateTo |-> dateTo,
   competitions |-> competitions]

\* the dates main's catch block computes for the demo payload, without the safety day
demoDatesNoSafetyDay(e, clock) ==
  [dateFrom |-> utcDay(clock - daysBack(e) * DayMs),
   dateTo |-> utcDay(clock + daysForward(e) * DayMs)]

\* the dates main's catch block computes for the demo payload
demoDates(e, clock) ==
  [dateFrom |-> utcDay(clock - daysBack(e) * DayMs),
   dateTo |-> utcDay(clock + daysForward(e) * DayMs) + 1]

\* a cache test that only asks whether the file exists
cachedOfExisting(file) == file.state # "absent"

\* readJsonIfExists(outFile) is truthy: the file exists and parses to a payload
cachedOf(file) == file.state = "json"

Max(a, b) == IF a > b THEN a ELSE b

parseRetryAfterMs(res, clock) ==
  CASE res.ra.form = "none" -> 0
    [] res.ra.form = "seconds" -> res.ra.n * 1000
    [] res.ra.form = "date" -> IF res.ra.n - clock > 0 THEN res.ra.n - clock ELSE 0
    [] OTHER -> 0

isOk(res) == res.status >= 200 /\ res.status <= 299

retryable(status) == status = 429 \/ (status >= 500 /\ status <= 599)

\* one retry more than the generator asks for
retriesOfOneMore(g) ==
  CASE g = "generate-scores" -> 4
    [] g = "generate-upcoming" -> 0
    [] OTHER -> 3

\* the retries the generator passes to fetchFD; generate-upcoming's fetchFD has no loop
retriesOf(g) ==
  CASE g = "generate-scores" -> 3
    [] g = "generate-upcoming" -> 0
    [] OTHER -> 2

\* the exponential backoff alone, the Retry-After header ignored
backoffOfIgnoringHeader(g, res, n, clock) == IF g = "generate-scores" THEN 900 * 2^n ELSE 800 * 2^n

\* the wait before the next attempt
backoffOf(g, res, n, clock) ==
  IF g = "generate-scores"
    THEN Max(parseRetryAfterMs(res, clock), 900 * 2^n)
    ELSE 800 * 2^n

\* err.status = res.status; generate-upcoming throws a plain Error
thrownFor(g, res) ==
  [kind |-> "threw", status |-> IF g = "generate-upcoming" THEN 0 ELSE res.status,
   hasStatus |-> g # "generate-upcoming", items |-> << >>]

returned(res) == [kind |-> "returned", status |-> 0, hasStatus |-> FALSE, items |-> res.items]

\* an error that carries no status: the missing token, a failed connection
PlainError == [kind |-> "threw", status |-> 0, hasStatus |-> FALSE, items |-> << >>]

\* a temporary-failure test that knows 429 only
isTemporaryOnly429(err) == err.hasStatus /\ err.status = 429

\* status === 429 || (status >= 500 && status <= 599) on err?.status
isTemporary(err) == err.hasStatus /\ (err.status = 429 \/ (err.status >= 500 /\ err.status <= 599))

\* the environments, output files, responses and start times of the runs explored
Envs ==
  { [API_TOKEN |-> "t", DAYS_BACK |-> "", DAYS_FORWARD |-> "", COMP_CODES |-> << >>],
    [API_TOKEN |-> "t", DAYS_BACK |-> "0", DAYS_FORWARD |-> "9", COMP_CODES |-> <<"tsl", " pl", " ">>],
    [API_TOKEN |-> "", DAYS_BACK |-> "2", DAYS_FORWARD |-> "x", COMP_CODES |-> << >>] }

OldPayload ==
  [mode |-> "", items |-> <<"m0">>, dateFrom |-> -3, dateTo |-> 0, competitions |-> DefaultCodes]

FilesAtStart == {AbsentFile, UnparseableFile, JsonFile(OldPayload)}

RetryAfters ==
  { NoHeader, [form |-> "seconds", n |-> 2], [form |-> "date", n |-> 1000],
    [form |-> "date", n |-> 60000], [form |-> "garbage", n |-> 0] }

FdResponses ==
  {[status |-> 200, ra |-> NoHeader, items |-> i] : i \in {<< >>, <<"m1">>}}
    \cup {[status |-> 404, ra |-> NoHeader, items |-> << >>]}
    \cup {[status |-> st, ra |-> ra, items |-> << >>] : st \in {429, 503}, ra \in RetryAfters}

InitRun ==
  /\ HdaIdle
  /\ ScriptsIdle
  /\ FixturesIdle
  /\ BrowserIdle
  /\ OpenaiIdle
  /\ LimitIdle
  /\ pc = "main"
  /\ generator \in Generators
  /\ env \in Envs
  /\ fileAtStart \in FilesAtStart
  /\ outFile = fileAtStart
  /\ attempt = 0
  /\ requests = 0
  /\ wait = 0
  /\ lastRes = NoRes
  /\ outcome = NoOutcome
  /\ window = NoWindow
  /\ now = 0
  /\ exitCode = -1

\* main up to the call of fetchFD: the token check, then the window of dates
StartRun ==
  /\ pc = "main"
  /\ IF env.API_TOKEN = ""
       THEN /\ outcome' = PlainError
            /\ pc' = "catch"
            /\ UNCHANGED window
       ELSE /\ window' = windowOf(generator, env, now)
            /\ pc' = "request"
            /\ UNCHANGED outcome
  /\ UNCHANGED <<hdaVars, scriptVars, limitVars, openaiVars, browserVars, fixtureVars, generator, env, fileAtStart, outFile, attempt,
                 requests, wait, lastRes, now, exitCode>>

\* one turn of fetchFD's loop: the request, its response, and the sleep before the
\* next turn when the response is retryable and attempts remain
Request ==
  /\ pc = "request"
  /\ \E res \in FdResponses :
       /\ lastRes' = res
       /\ requests' = requests + 1
       /\ CASE isOk(res) ->
                 /\ outcome' = returned(res)
                 /\ pc' = "write"
                 /\ UNCHANGED <<attempt, wait, now>>
            [] ~isOk(res) /\ (~retryable(res.status) \/ attempt = retriesOf(generator)) ->
                 /\ outcome' = thrownFor(generator, res)
                 /\ pc' = "catch"
                 /\ UNCHANGED <<attempt, wait, now>>
            [] OTHER ->
                 /\ wait' = backoffOf(generator, res, attempt, now)
                 /\ now' = now + backoffOf(generator, res, attempt, now)
                 /\ attempt' = attempt + 1
                 /\ pc' = "request"
                 /\ UNCHANGED outcome
  /\ UNCHANGED <<hdaVars, scriptVars, limitVars, openaiVars, browserVars, fixtureVars, generator, env, fileAtStart, outFile, window, exitCode>>

\* fetch() itself rejects: no response arrives and the error has no status
ConnectionFails ==
  /\ pc = "request"
  /\ requests' = requests + 1
  /\ lastRes' = NoRes
  /\ outcome' = PlainError
  /\ pc' = "catch"
  /\ UNCHANGED <<hdaVars, scriptVars, limitVars, openaiVars, browserVars, fixtureVars, generator, env, fileAtStart, outFile, attempt, wait,
                 window, now, exitCode>>

\* writeJson(outFile, payload) after a successful fetch
WriteOutput ==
  /\ pc = "write"
  /\ outFile' = JsonFile(payloadOf(window, outcome.items))
  /\ exitCode' = 0
  /\ pc' = "exit"
  /\ UNCHANGED <<hdaVars, scriptVars, limitVars, openaiVars, browserVars, fixtureVars, generator, env, fileAtStart, attempt, requests, wait,
                 lastRes, outcome, window, now>>

\* the catch block of main; generate-upcoming has none and exits 1 from main().catch
Catch ==
  /\ pc = "catch"
  /\ CASE generator = "generate-upcoming" ->
            /\ exitCode' = 1
            /\ UNCHANGED outFile
       [] cachedOf(outFile) /\ isTemporary(outcome) ->
            /\ exitCode' = 0
            /\ UNCHANGED outFile
       [] generator = "generate-scores" /\ ~cachedOf(outFile) /\ isTemporary(outcome) ->
            /\ outFile' = JsonFile(demoPayload(demoDates(env, now).dateFrom,
                                               demoDates(env, now).dateTo,
                                               parseCompAllowlistWithOrder(env)))
            /\ exitCode' = 0
       [] OTHER ->
            /\ exitCode' = 1
            /\ UNCHANGED outFile
  /\ pc' = "exit"
  /\ UNCHANGED <<hdaVars, scriptVars, limitVars, openaiVars, browserVars, fixtureVars, generator, env, fileAtStart, attempt, requests, wait,
                 lastRes, outcome, window, now>>

NextRun == StartRun \/ Request \/ ConnectionFails \/ WriteOutput \/ Catch

SpecRun == InitRun /\ [][NextRun]_vars

\* ---- the run's claims ----
Ended == pc = "exit"

\* the fetch failed: fetchFD or the token check threw
FetchFailed == outcome.kind = "threw"

\* fetchFD threw on a response with status 429 or 5xx
EndedTemporary ==
  /\ outcome.kind = "threw"
  /\ lastRes # NoRes
  /\ lastRes.status = 429 \/ lastRes.status \in 500..599

HoldsDemo(file) == file.state = "json" /\ file.payload.mode = "demo"

\* C12 as stated: in generate-scores.mjs and generate-upcoming.mjs, whenever the external
\* fetch fails (HTTP error status, missing token, network error) the run ends with the
\* output file holding placeholder/demo content.
C12_DemoOnAnyFailure ==
  (generator \in {"generate-scores", "generate-upcoming"} /\ Ended /\ FetchFailed)
    => HoldsDemo(outFile)

\* C12 amended: generate-upcoming.mjs has no fallback, a failed fetch ends the run with
\* exit code 1 and the output file as it was found; generate-scores.mjs ends with demo
\* content exactly when the fetch ended with 429 or 5xx and no parseable scores.json was
\* found, and leaves the file as it was found on every other failure.
C12_DemoOnlyOnTemporaryWithoutCache ==
  (Ended /\ FetchFailed) =>
    CASE generator = "generate-upcoming" -> outFile = fileAtStart /\ exitCode = 1
      [] generator = "generate-scores" ->
           IF EndedTemporary /\ fileAtStart.state # "json"
             THEN HoldsDemo(outFile)
             ELSE outFile = fileAtStart
      [] OTHER -> TRUE

C12_Witness ==
  /\ generator = "generate-scores"
  /\ Ended
  /\ FetchFailed
  /\ fileAtStart = UnparseableFile
  /\ HoldsDemo(outFile)

\* C13: in the cache-aware generators, when fetching ends with 429 or 5xx after the
\* retries are used up and a parseable output file exists, the file is left unchanged
\* and the exit code is 0.
C13_CacheKeptOnTemporaryFailure ==
  (/\ generator \in {"generate-scores", "part_004", "part_011"}
   /\ Ended
   /\ EndedTemporary
   /\ fileAtStart.state = "json")
    => (outFile = fileAtStart /\ exitCode = 0)

C13_Witness ==
  /\ generator = "generate-scores"
  /\ Ended
  /\ EndedTemporary
  /\ requests = 4
  /\ lastRes.status = 503
  /\ fileAtStart = JsonFile(OldPayload)
  /\ exitCode = 0

C15_HardFailOnlyWithoutFallback ==
  (generator = "generate-scores" /\ Ended /\ exitCode = 1)
    => (fileAtStart.state # "json" /\ ~EndedTemporary)

RetryAfterDelay(res, clock) ==
  CASE res.ra.form = "seconds" -> 1000 * res.ra.n
    [] res.ra.form = "date" /\ res.ra.n > clock -> res.ra.n - clock
    [] OTHER -> 0

\* C20: in generate-scores.mjs the wait before the retry that follows failed attempt n is
\* max(Retry-After delay in ms, 900 * 2^n): never shorter than the server's Retry-After
\* (seconds, or an HTTP date in the future) and never shorter than 900, 1800, 3600 ms.
C20_WaitRespectsRetryAfter ==
  (generator = "generate-scores" /\ pc = "request" /\ attempt > 0) =>
    /\ wait >= RetryAfterDelay(lastRes, now - wait)
    /\ wait >= <<900, 1800, 3600>>[attempt]
    /\ wait = RetryAfterDelay(lastRes, now - wait) \/ wait = 900 * 2^(attempt - 1)

C20_Witness ==
  /\ generator = "generate-scores"
  /\ pc = "request"
  /\ attempt = 2
  /\ lastRes.ra.form = "date"
  /\ wait > 1800
  /\ wait < 60000


\* ---------------------------------------------------------------------------------
\* generate-upcoming.mjs: parseLimit and the sort and trim of the items.
\* A fixture is its id and its kickoffUTC; kickoffUTC is a number standing for the ISO
\* text (localeCompare orders ISO texts as the numbers), 0 for the empty text.
\* ---------------------------------------------------------------------------------

\* a parseLimit that clamps 0 like any other number
parseLimitZeroClamped(text) ==
  LET n == NumberOfText(envOr(text, "80"))
      v == IF IsFinite(n) THEN n ELSE Num(80, 0)
  IN FMax(Num(10, 0), FMin(Num(500, 0), v))

parseLimit(text) ==
  LET n == NumberOfText(envOr(text, "80"))
      v == IF IsFinite(n) THEN n ELSE Num(80, 0)
  IN IF IsFinite(n) /\ n.m = 0
       THEN PosInf
       ELSE FMax(Num(10, 0), FMin(Num(500, 0), v))

\* safeStr(a.kickoffUTC).localeCompare(safeStr(b.kickoffUTC)) <= 0
inOrder(a, b) == a.kickoffUTC <= b.kickoffUTC

\* items.sort(...): a stable sort by kickoffUTC
RECURSIVE insertSorted(_, _)
insertSorted(item, sorted) ==
  CASE sorted = << >> -> <<item>>
    [] inOrder(sorted[Len(sorted)], item) -> Append(sorted, item)
    [] OTHER -> Append(insertSorted(item, SubSeq(sorted, 1, Len(sorted) - 1)),
                       sorted[Len(sorted)])

RECURSIVE sortByKickoff(_)
sortByKickoff(items) ==
  IF items = << >>
    THEN << >>
    ELSE insertSorted(items[Len(items)], sortByKickoff(SubSeq(items, 1, Len(items) - 1)))

\* items.slice(0, limit)
sliceTo(items, limit) ==
  SubSeq(items, 1, IF TruncInt(limit) < Len(items) THEN TruncInt(limit) ELSE Len(items))

trimmed(items, limit) == IF IsFinite(limit) THEN sliceTo(items, limit) ELSE items

upcomingPayload(text, items) ==
  [limit |-> IF IsFinite(parseLimit(text)) THEN parseLimit(text) ELSE Zero,
   items |-> trimmed(sortByKickoff(items), parseLimit(text))]

\* the values of NETTHUD_UPCOMING_LIMIT explored ("" is unset or empty)
LimitTexts == {"", "0", "2.5", "9", "11.5", "12", "80", "600", "-3", "abc", "Infinity"}

\* n fixtures in the order of the response, their kickoffs spread by step and offset
fixtures(n, step, offset) ==
  [i \in 1..n |-> [id |-> i, kickoffUTC |-> (i * step + offset) % 11]]

FixtureLists ==
  {fixtures(n, step, offset) : n \in 0..MaxFixtures, step \in {1, 5, 7}, offset \in 0..2}

InitLimit ==
  /\ HdaIdle
  /\ ScriptsIdle
  /\ RunIdle
  /\ FixturesIdle
  /\ BrowserIdle
  /\ OpenaiIdle
  /\ pc = "trim"
  /\ limitText \in LimitTexts
  /\ keep \in FixtureLists
  /\ upcoming = NoUpcoming

\* fetchFootballDataUpcoming from the kept fixtures on: limit, sort, trim, payload
BuildUpcoming ==
  /\ pc = "trim"
  /\ upcoming' = upcomingPayload(limitText, keep)
  /\ pc' = "built"
  /\ UNCHANGED <<hdaVars, scriptVars, runVars, openaiVars, browserVars, fixtureVars, limitText, keep>>

NextLimit == BuildUpcoming

SpecLimit == InitLimit /\ [][NextLimit]_vars

\* the fixtures of a list, as a set
ItemsIn(items) == {items[i] : i \in 1..Len(items)}

\* the number the limit text stands for
LimitNumber == NumberOfText(limitText)

\* the limit the text asks for: 80 for a non-numeric or unset value, else the number
\* clamped to [10, 500]
ClampedLimit ==
  CASE limitText = "" \/ ~IsFinite(LimitNumber) -> Num(80, 0)
    [] FLt(LimitNumber, Num(10, 0)) -> Num(10, 0)
    [] FLt(Num(500, 0), LimitNumber) -> Num(500, 0)
    [] OTHER -> LimitNumber

\* C16: NETTHUD_UPCOMING_LIMIT 0 means no limit (every kept fixture is output, the
\* payload's limit is 0); any other value is clamped to [10, 500], a non-numeric value
\* counting as 80, the output never holds more items than that limit and the items
\* output are the earliest by kickoffUTC.
C16_LimitSemantics ==
  (pc = "built" /\ limitText \in LimitTexts) =>
    /\ ItemsIn(upcoming.items) \subseteq ItemsIn(keep)
    /\ \A i \in 1..Len(upcoming.items) - 1 :
         upcoming.items[i].kickoffUTC <= upcoming.items[i + 1].kickoffUTC
    /\ IF limitText = "0"
         THEN /\ upcoming.limit = Zero
              /\ Len(upcoming.items) = Len(keep)
              /\ ItemsIn(upcoming.items) = ItemsIn(keep)
         ELSE /\ upcoming.limit = ClampedLimit
              /\ ~FLt(ClampedLimit, Num(Len(upcoming.items), 0))
              /\ \A out \in ItemsIn(upcoming.items) :
                   \A dropped \in ItemsIn(keep) \ ItemsIn(upcoming.items) :
                     out.kickoffUTC <= dropped.kickoffUTC

C16_Witness ==
  /\ pc = "built"
  /\ limitText = "11.5"
  /\ Len(keep) = 12
  /\ Len(upcoming.items) = 11
  /\ keep[12] \in ItemsIn(upcoming.items)
  /\ \E i \in 1..11 : keep[i] \notin ItemsIn(upcoming.items)


\* ---------------------------------------------------------------------------------
\* generate-ai-news-openai.mjs and its signals twin (part_006, first script): main reads
\* the output file, calls the API, and writes either the cleaned reply or `existing`.
\* ---------------------------------------------------------------------------------
Twins == {"generate-ai-news-openai", "part_006"}

\* the second argument of readJsonSafe in main
fallbackOf(t) == [updated |-> "null", items |-> << >>]

readJsonSafe(file, fallback) == IF file.state = "json" THEN file.value ELSE fallback

\* the file after writeJsonAtomic(OUT_PATH, value)
writeJsonAtomic(value) == [state |-> "json", value |-> value, pretty |-> TRUE]

\* callOpenAI: null without a key, throws on an HTTP error or a reply without a JSON
\* object; main's try/catch leaves obj null when it throws
Replies == {"rejected", "http-error", "no-json", "no-items", "items-text", "no-entries", "entries"}

objOf(key, r) ==
  CASE key = "" -> NullObj
    [] r \in {"rejected", "http-error", "no-json"} -> NullObj
    [] r = "no-items" -> [kind |-> "object", itemsKind |-> "none", items |-> << >>]
    [] r = "items-text" -> [kind |-> "object", itemsKind |-> "text", items |-> << >>]
    [] r = "no-entries" -> [kind |-> "object", itemsKind |-> "array", items |-> << >>]
    [] OTHER -> [kind |-> "object", itemsKind |-> "array", items |-> <<"new1", "new2">>]

\* !obj || !obj.items || !Array.isArray(obj.items)
invalid(o) == o.kind = "null" \/ o.itemsKind # "array"

\* cleaned: the reply's items (at most 30, or 12) with the time of the run
cleaned(o) == [updated |-> "now", items |-> o.items]

OldValues == {[updated |-> "t0", items |-> <<"old1">>], [updated |-> "t0", items |-> << >>]}

OutputsAtStart ==
  { NoOutput,
    [state |-> "empty", value |-> NoValue, pretty |-> FALSE],
    [state |-> "unparseable", value |-> NoValue, pretty |-> FALSE] }
    \cup {[state |-> "json", value |-> v, pretty |-> pr] : v \in OldValues, pr \in BOOLEAN}

InitOpenai ==
  /\ HdaIdle
  /\ ScriptsIdle
  /\ RunIdle
  /\ FixturesIdle
  /\ BrowserIdle
  /\ LimitIdle
  /\ pc = "read"
  /\ twin \in Twins
  /\ apiKey \in {"", "sk"}
  /\ reply \in Replies
  /\ outAtStart \in OutputsAtStart
  /\ outPath = outAtStart
  /\ existing = NoValue
  /\ obj = NullObj

\* const existing = readJsonSafe(OUT_PATH, ...)
ReadExisting ==
  /\ pc = "read"
  /\ existing' = readJsonSafe(outPath, fallbackOf(twin))
  /\ pc' = "ask"
  /\ UNCHANGED <<hdaVars, scriptVars, runVars, limitVars, browserVars, fixtureVars, twin, apiKey, reply, outAtStart,
                 outPath, obj>>

\* obj = await callOpenAI(prompt), inside main's try/catch
CallOpenAI ==
  /\ pc = "ask"
  /\ obj' = objOf(apiKey, reply)
  /\ pc' = "store"
  /\ UNCHANGED <<hdaVars, scriptVars, runVars, limitVars, browserVars, fixtureVars, twin, apiKey, reply, outAtStart,
                 outPath, existing>>

\* the end of main: write `existing` back when obj is invalid, else the cleaned reply
StoreResult ==
  /\ pc = "store"
  /\ outPath' = IF invalid(obj) THEN writeJsonAtomic(existing) ELSE writeJsonAtomic(cleaned(obj))
  /\ pc' = "stored"
  /\ UNCHANGED <<hdaVars, scriptVars, runVars, limitVars, browserVars, fixtureVars, twin, apiKey, reply, outAtStart,
                 existing, obj>>

NextOpenai == ReadExisting \/ CallOpenAI \/ StoreResult

SpecOpenai == InitOpenai /\ [][NextOpenai]_vars

\* the key is missing, the API call fails, or the model output has no items array
NoUsableReply ==
  \/ apiKey = ""
  \/ reply \in {"rejected", "http-error", "no-json"}
  \/ reply \in {"no-items", "items-text"}

\* C17 as stated: when the key is missing, the API call fails or the model output has no
\* items array, the run is a no-op on the output file: afterwards the file holds the same
\* JSON value as before, and no file appears if none existed.
C17_NoOpOnFailure ==
  (pc = "stored" /\ NoUsableReply) =>
    /\ outAtStart.state = "json" => (outPath.state = "json" /\ outPath.value = outAtStart.value)
    /\ outAtStart.state = "absent" => outPath.state = "absent"


\* ---------------------------------------------------------------------------------
\* The page script (part_001, assets/app.js): main loads the six data files with
\* safeFetchJson, renders the five sections in turn and assigns window.NETTHUD. An
\* exception in main ends it where it is thrown (pc "crashed"). The page holds all
\* five section elements.
\* ---------------------------------------------------------------------------------

\* how the fetch of a file can go: no connection, a non-2xx status, a body that is not
\* JSON, or a JSON object without items, with an items array (empty or not), or with
\* an items text
Loads == {"network-error", "http-error", "unparseable", "no-items", "no-entries", "entries", "items-text"}
FailedLoads == {"network-error", "http-error", "unparseable"}

Rejected == [kind |-> "rejected", itemsKind |-> "none", n |-> 0]

bodyOf(load) ==
  CASE load = "no-items" -> [kind |-> "object", itemsKind |-> "none", n |-> 0]
    [] load = "no-entries" -> [kind |-> "object", itemsKind |-> "array", n |-> 0]
    [] load = "entries" -> [kind |-> "object", itemsKind |-> "array", n |-> 2]
    [] OTHER -> [kind |-> "object", itemsKind |-> "text", n |-> 4]

\* safeFetchJson without its try/catch
safeFetchJsonNoCatch(load) == IF load \in FailedLoads THEN Rejected ELSE bodyOf(load)

safeFetchJson(load) == IF load \in FailedLoads THEN JsonNull ELSE bodyOf(load)

\* json?.items ?? []
itemsOrEmpty(j) ==
  IF j.kind = "null" \/ j.itemsKind = "none"
    THEN [itemsKind |-> "array", n |-> 0]
    ELSE [itemsKind |-> j.itemsKind, n |-> j.n]

filterExternal(items) ==
  IF items.itemsKind # "array" THEN [itemsKind |-> "array", n |-> 0] ELSE items

\* a render function on a present wrap: the empty state, the cards, or a TypeError when
\* items has a length but no forEach
renderOf(items) ==
  CASE items.n = 0 -> "empty"
    [] items.itemsKind = "array" -> "cards"
    [] OTHER -> "throws"

fileOf(sec) ==
  CASE sec = "leagues" -> "leagues.json"
    [] sec = "finalScores" -> "scores.json"
    [] sec = "upcoming" -> "upcoming.json"
    [] sec = "transfers" -> "transfers.json"
    [] OTHER -> "ai-news.json"

\* transfers and aiNews are rendered from the filtered items
shownItems(sec, j) ==
  IF sec \in {"transfers", "aiNews"} THEN filterExternal(itemsOrEmpty(j)) ELSE itemsOrEmpty(j)

\* the order of the render calls in main, and what follows each
nextStep(sec) ==
  CASE sec = "leagues" -> "finalScores"
    [] sec = "finalScores" -> "upcoming"
    [] sec = "upcoming" -> "transfers"
    [] sec = "transfers" -> "aiNews"
    [] OTHER -> "assign"

InitBrowser ==
  /\ HdaIdle
  /\ ScriptsIdle
  /\ RunIdle
  /\ FixturesIdle
  /\ LimitIdle
  /\ OpenaiIdle
  /\ pc = "load"
  /\ loads \in [DataFiles -> Loads]
  /\ json = [f \in DataFiles |-> Pending]
  /\ rendered = [sec \in Sections |-> "none"]
  /\ netthud = FALSE

\* await Promise.all of the six safeFetchJson calls: main goes on when all have
\* resolved and ends when one rejects
LoadAll ==
  /\ pc = "load"
  /\ json' = [f \in DataFiles |-> safeFetchJson(loads[f])]
  /\ pc' = IF \E f \in DataFiles : safeFetchJson(loads[f]) = Rejected THEN "crashed" ELSE "leagues"
  /\ UNCHANGED <<hdaVars, scriptVars, runVars, limitVars, openaiVars, fixtureVars, loads, rendered, netthud>>

\* setUpdated and the render call of one section
RenderSection(sec) ==
  /\ pc = sec
  /\ IF renderOf(shownItems(sec, json[fileOf(sec)])) = "throws"
       THEN /\ pc' = "crashed"
            /\ rendered' = [rendered EXCEPT ![sec] = "cleared"]
       ELSE /\ pc' = nextStep(sec)
            /\ rendered' = [rendered EXCEPT ![sec] = renderOf(shownItems(sec, json[fileOf(sec)]))]
  /\ UNCHANGED <<hdaVars, scriptVars, runVars, limitVars, openaiVars, fixtureVars, loads, json, netthud>>

RenderLeagues == RenderSection("leagues")
RenderScores == RenderSection("finalScores")
RenderUpcoming == RenderSection("upcoming")
RenderTransfers == RenderSection("transfers")
RenderNewsList == RenderSection("aiNews")

\* window.NETTHUD = { ... }
AssignNetthud ==
  /\ pc = "assign"
  /\ netthud' = TRUE
  /\ pc' = "loaded"
  /\ UNCHANGED <<hdaVars, scriptVars, runVars, limitVars, openaiVars, fixtureVars, loads, json, rendered>>

NextBrowser ==
  \/ LoadAll
  \/ RenderLeagues
  \/ RenderScores
  \/ RenderUpcoming
  \/ RenderTransfers
  \/ RenderNewsList
  \/ AssignNetthud

SpecBrowser == InitBrowser /\ [][NextBrowser]_vars

\* every file either fails to load or holds a JSON object whose items, if any, is an array
FilesMissingOrWellFormed == \A f \in DataFiles : loads[f] # "items-text"

\* C18: safeFetchJson never rejects (a network error, a non-2xx status and an unparseable
\* body all give null), and whichever of the six files fail to load, main renders every
\* section, with its empty state where the data is missing, and assigns window.NETTHUD.
C18_NeverCrashesOnMissingJson ==
  /\ pc # "load" =>
       \A f \in DataFiles :
         /\ json[f].kind \in {"null", "object"}
         /\ loads[f] \in FailedLoads => json[f].kind = "null"
  /\ FilesMissingOrWellFormed =>
       /\ pc # "crashed"
       /\ \A sec \in Sections :
            (rendered[sec] # "none" /\ loads[fileOf(sec)] \in FailedLoads) => rendered[sec] = "empty"
       /\ pc = "assign" => \A sec \in Sections : rendered[sec] \in {"empty", "cards"}
       /\ pc = "loaded" => (netthud /\ \A sec \in Sections : rendered[sec] \in {"empty", "cards"})

C18_Witness ==
  /\ pc = "loaded"
  /\ netthud
  /\ loads["leagues.json"] = "network-error"
  /\ loads["scores.json"] = "http-error"
  /\ loads["upcoming.json"] = "unparseable"
  /\ loads["transfers.json"] = "entries"
  /\ loads["signals.json"] = "http-error"
  /\ rendered["leagues"] = "empty"
  /\ rendered["finalScores"] = "empty"
  /\ rendered["upcoming"] = "empty"
  /\ rendered["transfers"] = "cards"


\* ---------------------------------------------------------------------------------
\* generate-upcoming.mjs, fetchFootballDataUpcoming from the kept fixtures to the items:
\* the competition ids are gathered, the standings of each are fetched into
\* standingsCache (an empty map when the fetch throws), and each kept fixture becomes an
\* item with its hda. An id that is missing is 0. The sort and trim that follow are
\* BuildUpcoming's.
\* ---------------------------------------------------------------------------------

\* for (const m of keep) if (compId) compIds.add(compId): the ids in order of first
\* appearance
RECURSIVE gatherCompIds(_, _)
gatherCompIds(matches, seen) ==
  CASE matches = << >> -> seen
    [] Head(matches).competitionId = 0
         \/ \E i \in DOMAIN seen : seen[i] = Head(matches).competitionId ->
         gatherCompIds(Tail(matches), seen)
    [] OTHER -> gatherCompIds(Tail(matches), Append(seen, Head(matches).competitionId))

\* standingsCache.set(compId, map)
cacheSet(cache, compId, map) ==
  [c \in DOMAIN cache \cup {compId} |-> IF c = compId THEN map ELSE cache[c]]

\* a lookup that takes the rating from the standings of any competition
ratingInAnyCompetition(cache, competitionId, teamId) ==
  CASE teamId = 0 -> Null
    [] \E c \in DOMAIN cache : teamId \in DOMAIN cache[c] ->
         cache[CHOOSE c \in DOMAIN cache : teamId \in DOMAIN cache[c]][teamId].rating
    [] OTHER -> Undefined

\* standings && teamId ? standings.get(teamId)?.rating : null, standings being
\* competitionId ? standingsCache.get(competitionId) : null
ratingIn(cache, competitionId, teamId) ==
  CASE competitionId = 0 \/ competitionId \notin DOMAIN cache -> Null
    [] teamId = 0 -> Null
    [] teamId \in DOMAIN cache[competitionId] -> cache[competitionId][teamId].rating
    [] OTHER -> Undefined

\* Number.isFinite(x) ? x : NaN
finiteOrNaN(x) == IF IsFinite(x) THEN x ELSE NaN

\* the item of keep.map: its matchId and hda
itemOf(cache, m) ==
  [matchId |-> m.id,
   hda |-> computeHDA(finiteOrNaN(ratingIn(cache, m.competitionId, m.homeId)),
                      finiteOrNaN(ratingIn(cache, m.competitionId, m.awayId)))]

\* sample fixtures: competition 0 (no id), 1 or 2; clubs 1 and 2 have standings rows,
\* club 3 has none, club 0 is a missing id
Pairings == {<<1, 2>>, <<2, 1>>, <<0, 2>>, <<1, 3>>}
KeptLists ==
  UNION {[1..n -> [competitionId : 0..2, teams : Pairings]] : n \in 0..MaxKept}
keptOf(list) ==
  [i \in DOMAIN list |->
     [id |-> i, competitionId |-> list[i].competitionId,
      homeId |-> list[i].teams[1], awayId |-> list[i].teams[2]]]

\* the standings row of club 1 (club 2's is OtherRow)
FirstRow ==
  [teamId |-> 1, playedGames |-> Num(3, 0), points |-> Num(4, 0),
   goalsFor |-> Num(3, 0), goalsAgainst |-> Num(3, 0)]

\* sample standings replies: the fetch throws, a body without standings, a table with
\* both clubs, a table with club 1 only
StandingsReplies ==
  { NoResponse,
    [ok |-> TRUE, isArray |-> FALSE, standings |-> << >>],
    [ok |-> TRUE, isArray |-> TRUE, standings |-> <<[type |-> "TOTAL", table |-> <<FirstRow, OtherRow>>]>>],
    [ok |-> TRUE, isArray |-> TRUE, standings |-> <<[type |-> "TOTAL", table |-> <<FirstRow>>]>>] }

InitFixtures ==
  /\ HdaIdle
  /\ ScriptsIdle
  /\ RunIdle
  /\ LimitIdle
  /\ OpenaiIdle
  /\ BrowserIdle
  /\ pc = "gather"
  /\ \E list \in KeptLists : keptMatches = keptOf(list)
  /\ replyOf \in [1..2 -> StandingsReplies]
  /\ compIds = << >>
  /\ fetched = 0
  /\ cacheOf = NoStandings
  /\ outItems = << >>

\* the loop that fills compIds
GatherCompIds ==
  /\ pc = "gather"
  /\ compIds' = gatherCompIds(keptMatches, << >>)
  /\ pc' = "standings"
  /\ UNCHANGED <<hdaVars, scriptVars, runVars, limitVars, openaiVars, browserVars,
                 keptMatches, replyOf, fetched, cacheOf, outItems>>

\* one turn of the loop over compIds: the standings fetch in its try/catch
FetchCompetition ==
  /\ pc = "standings"
  /\ fetched < Len(compIds)
  /\ cacheOf' = cacheSet(cacheOf, compIds[fetched + 1], cachedStandings(replyOf[compIds[fetched + 1]]))
  /\ fetched' = fetched + 1
  /\ UNCHANGED <<hdaVars, pc, scriptVars, runVars, limitVars, openaiVars, browserVars,
                 keptMatches, replyOf, compIds, outItems>>

\* const items = keep.map(...)
MapItems ==
  /\ pc = "standings"
  /\ fetched = Len(compIds)
  /\ outItems' = [i \in DOMAIN keptMatches |-> itemOf(cacheOf, keptMatches[i])]
  /\ pc' = "mapped"
  /\ UNCHANGED <<hdaVars, scriptVars, runVars, limitVars, openaiVars, browserVars,
                 keptMatches, replyOf, compIds, fetched, cacheOf>>

NextFixtures == GatherCompIds \/ FetchCompetition \/ MapItems

SpecFixtures == InitFixtures /\ [][NextFixtures]_vars

\* the club has a rating in the map of the fixture's competition
HasRating(m, teamId) ==
  /\ m.competitionId \in DOMAIN cacheOf
  /\ teamId \in DOMAIN cacheOf[m.competitionId]

====
